---- MODULE Spec2Model ----
(***************************************************************************)
(* StaticResolver (apps/wizdm/src/app/pages/static/static-resolver.service) *)
(* resolves a route into static content: it assembles the document path    *)
(* from the route parameters, resets the per-language cache, loads the     *)
(* main .md file, parses its comments for options, loads the toc file the  *)
(* options name, and redirects to /not-found when a load fails.            *)
(*                                                                         *)
(* Text is modelled as a sequence of one-character strings, so that the    *)
(* regular expressions of the source are computed character by character.  *)
(* Indices (index, lastIndex) are 0-based as in JavaScript: the character  *)
(* at index i of s is s[i + 1].                                            *)
(***************************************************************************)
EXTENDS Integers, Sequences, FiniteSets, TLC

\* ------------------------------------------------------------------ bounds
\* resolve() invocations in one behaviour
MaxCalls == 2
\* route parameters in one ParamMap of the path specification
MaxParams == 3
\* pieces of text in one source of the parseComments specification
MaxPieces == 6

\* ------------------------------------------------------- character classes
Digit == {"0", "1", "2", "3", "4", "5", "6", "7", "8", "9"}

Lower == {"a", "b", "c", "d", "e", "f", "g", "h", "i", "j", "k", "l", "m",
          "n", "o", "p", "q", "r", "s", "t", "u", "v", "w", "x", "y", "z"}

Upper == {"A", "B", "C", "D", "E", "F", "G", "H", "I", "J", "K", "L", "M",
          "N", "O", "P", "Q", "R", "S", "T", "U", "V", "W", "X", "Y", "Z"}

\* \w
WordChar == Digit \cup Lower \cup Upper \cup {"_"}

\* \s (the white space that occurs in the documents of the model)
SpaceChar == {" ", "\n", "\t", "\r"}

\* [\w-_.] : a class escape cannot bound a range, so "-" is a literal
ValueChar == WordChar \cup {"-", "_", "."}

\* ----------------------------------------------------------- text helpers
\* s.substring(from, to) with 0-based from (inclusive) and to (exclusive)
Slice(s, from, to) == SubSeq(s, from + 1, to)

\* whether the literal lit occurs in s at 0-based index i
LitAt(s, i, lit) ==
    /\ i + Len(lit) <= Len(s)
    /\ \A k \in 1..Len(lit) : s[i + k] = lit[k]

\* the index after the longest run of characters of class cls starting at i
RECURSIVE RunEnd(_, _, _)
RunEnd(s, i, cls) ==
    IF i < Len(s) /\ s[i + 1] \in cls THEN RunEnd(s, i + 1, cls) ELSE i

\* the absent value of JavaScript (undefined / null)
Undefined == "undefined"

\* ---------------------------------------------------------------- literals
SLASH == <<"/">>
DOTMD == <<".", "m", "d">>
COPEN == <<"<", "!", "-", "-">>
CCLOSE == <<"-", "-", ">">>
BODY == <<"b", "o", "d", "y">>
PATH == <<"p", "a", "t", "h">>
TOC == <<"t", "o", "c">>
REF == <<"r", "e", "f">>

\* ------------------------------------------------- RegExp.prototype.exec
\* The result of exec: index is the start of the match, end the lastIndex
\* exec leaves in the regular expression, groups the capture groups.
\* A failed exec (null) is the record with index -1.
NullMatch == [index |-> -1, end |-> 0, groups |-> <<>>]

IsNull(match) == match.index < 0

\* the first index >= i where the literal lit occurs in s, or -1
RECURSIVE FindLit(_, _, _)
FindLit(s, i, lit) ==
    IF i + Len(lit) > Len(s) THEN -1
    ELSE IF LitAt(s, i, lit) THEN i
    ELSE FindLit(s, i + 1, lit)

\* /<!--([\s\S]*?)-->/ anchored at p: the lazy group ends at the nearest -->
MatchCommentAt(s, p) ==
    IF ~LitAt(s, p, COPEN) THEN NullMatch
    ELSE LET q == FindLit(s, p + Len(COPEN), CCLOSE)
         IN IF q < 0 THEN NullMatch
            ELSE [index |-> p, end |-> q + Len(CCLOSE),
                  groups |-> <<Slice(s, p + Len(COPEN), q)>>]

\* /\s*(\w+):\s*([\w-_.]*)\s*/ anchored at p. Every quantifier is greedy and
\* followed by a disjoint class, so backtracking never finds another match.
MatchPairAt(s, p) ==
    LET a == RunEnd(s, p, SpaceChar)
        b == RunEnd(s, a, WordChar)
    IN IF b = a \/ ~LitAt(s, b, <<":">>) THEN NullMatch
       ELSE LET c == RunEnd(s, b + 1, SpaceChar)
                d == RunEnd(s, c, ValueChar)
                e == RunEnd(s, d, SpaceChar)
            IN [index |-> p, end |-> e,
                groups |-> <<Slice(s, a, b), Slice(s, c, d)>>]

\* the regular expressions of parseComments, named by a tag
MatchAt(rx, s, p) ==
    IF rx = "comments" THEN MatchCommentAt(s, p) ELSE MatchPairAt(s, p)

\* the leftmost match starting at p or later
RECURSIVE Search(_, _, _)
Search(rx, s, p) ==
    IF p > Len(s) THEN NullMatch
    ELSE LET m == MatchAt(rx, s, p)
         IN IF IsNull(m) THEN Search(rx, s, p + 1) ELSE m

\* exec of a regular expression without the g flag: lastIndex is not read
execNotGlobal(rx, source, lastIndex) == Search(rx, source, 0)

\* rx.exec(source) of a global regular expression whose lastIndex is given
exec(rx, source, lastIndex) == Search(rx, source, lastIndex)

\* ------------------------------------------------------------------ parse
\* The loop of parse(): the matches handed to fn, in call order. A
\* zero-length match leaves lastIndex = index, and the loop then steps
\* lastIndex by one.
\* rx.lastIndex after the test of one iteration:
\* if(match.index == rx.lastIndex) { rx.lastIndex++ }
NextIndex(match) ==
    IF match.index = match.end THEN match.end + 1 ELSE match.end

RECURSIVE parseFrom(_, _, _)
parseFrom(rx, source, lastIndex) ==
    LET match == exec(rx, source, lastIndex)
    IN IF IsNull(match) THEN <<>>
       ELSE <<match>> \o parseFrom(rx, source, NextIndex(match))

parse(rx, source) == parseFrom(rx, source, 0)

\* ---------------------------------------------------------- parseComments
\* const out = {}
EmptyMap == [k \in {} |-> <<>>]

\* an assignment that keeps the value a key already has
AssignFirst(out, key, value) == out @@ (key :> value)

\* out[key] = value
Assign(out, key, value) == (key :> value) @@ out

\* the callback of the inner parse, over the pairs of one comment
RECURSIVE AssignPairs(_, _)
AssignPairs(out, pairs) ==
    IF pairs = <<>> THEN out
    ELSE AssignPairs(Assign(out, Head(pairs).groups[1], Head(pairs).groups[2]),
                     Tail(pairs))

\* the callback of the outer parse, over the comments of the source
RECURSIVE ScanComments(_, _)
ScanComments(out, comments) ==
    IF comments = <<>> THEN out
    ELSE ScanComments(AssignPairs(out, parse("pairs", Head(comments).groups[1])),
                      Tail(comments))

parseComments(source) ==
    IF Len(source) = 0 THEN EmptyMap
    ELSE ScanComments(EmptyMap, parse("comments", source))

\* ------------------------------------------------------------ resolvePath
\* A value of a route parameter: a string, or the absent value
Str(text) == [type |-> "string", str |-> text]

NoValue == [type |-> "undefined", str |-> <<>>]

\* a filter that tests the prefix only: key.match(/^path/)
MatchesPathPrefix(key) ==
    /\ Len(key) >= Len(PATH)
    /\ SubSeq(key, 1, Len(PATH)) = PATH

\* key.match(/^path\d*$/)
MatchesPathKey(key) ==
    /\ Len(key) >= Len(PATH)
    /\ SubSeq(key, 1, Len(PATH)) = PATH
    /\ RunEnd(key, Len(PATH), Digit) = Len(key)

\* params.keys
KeysOf(params) == [i \in 1..Len(params) |-> params[i].key]

\* params.get(key): the value of the parameter named key
Get(params, key) ==
    IF \E i \in 1..Len(params) : params[i].key = key
    THEN params[CHOOSE i \in 1..Len(params) : params[i].key = key].value
    ELSE NoValue

\* Array.prototype.join: an undefined or null element is joined as ""
JoinElement(v) == IF v.type = "string" THEN v.str ELSE <<>>

RECURSIVE Join(_, _)
Join(values, sep) ==
    IF values = <<>> THEN <<>>
    ELSE IF Len(values) = 1 THEN JoinElement(values[1])
    ELSE JoinElement(values[1]) \o sep \o Join(Tail(values), sep)

resolvePath(params) ==
    LET matched == SelectSeq(KeysOf(params), MatchesPathKey)
        values == [i \in 1..Len(matched) |-> Get(params, matched[i])]
    IN Join(values, SLASH)

\* path.replace(/\.\w+$/, ''): drops a trailing dot followed by word characters
RECURSIVE FindExt(_, _)
FindExt(s, p) ==
    IF p >= Len(s) THEN -1
    ELSE IF s[p + 1] = "." /\ p + 1 < Len(s) /\ RunEnd(s, p + 1, WordChar) = Len(s)
         THEN p
    ELSE FindExt(s, p + 1)

StripExt(path) ==
    LET p == FindExt(path, 0)
    IN IF p < 0 THEN path ELSE Slice(path, 0, p)

\* the file name of the main document: path.replace(/\.\w+$/, '') + '.md'
MainFile(path) == StripExt(path) \o DOTMD

\* ------------------------------------------------------------------ state
VARIABLES
    cache,   \* this.cache: <<>> while undefined, else <<entry>>, the one slot
    calls,   \* the resolve() invocations, in call order, with their closures;
             \* trace lists what a call did, in order: "reset" (the cache),
             \* "main" and "toc" (loadFile called), "parse" (parseComments),
             \* "navigate" (router.navigate), "emit" (a value to the subscriber)
    router,  \* the commands given to router.navigate, in call order
    scan     \* one run of parseComments, iteration by iteration (see below)

vars == <<cache, calls, router, scan>>

\* ---------------------------------------------------------- collaborators
\* the languages the selector resolves
Langs == {"en", "it"}

\* route.data.source: a root, or absent
Sources == {Undefined, "docs"}

DefaultRoot == "assets/docs"

NotFoundCommand == <<"/not-found">>

\* the failures of loadFile
Failures == {"NotFound", "TransportError"}

\* documents
GuideText ==
    <<"#", " ", "G", "u", "i", "d", "e", "\n">> \o COPEN
    \o <<" ", "r", "e", "f", ":", " ", "1", ".", "0", " ">> \o CCLOSE

NavFile == <<"n", "a", "v", ".", "m", "d">>

IntroText ==
    <<"I", "n", "t", "r", "o", "\n">> \o COPEN
    \o <<" ", "t", "o", "c", ":", " ">> \o NavFile
    \o <<"\n", "r", "e", "f", ":", " ", "v", "1", " ">> \o CCLOSE

\* a toc key with an empty value
BareText == <<"B", "a", "r", "e">> \o COPEN \o <<" ", "t", "o", "c", ":", " ">> \o CCLOSE

\* comments whose keys are body and path
ClashText ==
    <<"C", "l", "a", "s", "h">> \o COPEN
    \o <<" ", "b", "o", "d", "y", ":", " ", "x", " ", "p", "a", "t", "h", ":", " ", "y", " ">>
    \o CCLOSE

NavEn == <<"*", " ", "H", "o", "m", "e">>

NavIt == <<"*", " ", "C", "a", "s", "a">>

GUIDE == <<"g", "u", "i", "d", "e">>
INTRO == <<"i", "n", "t", "r", "o">>
BARE == <<"b", "a", "r", "e">>
CLASH == <<"c", "l", "a", "s", "h">>

File(root, lang, file, text) ==
    [root |-> root, lang |-> lang, file |-> file, text |-> text]

\* what the loader can retrieve: the toc of intro is missing under "docs",
\* and most documents are missing in "it"
Files ==
    { File(DefaultRoot, "en", GUIDE \o DOTMD, GuideText),
      File(DefaultRoot, "en", INTRO \o DOTMD, IntroText),
      File(DefaultRoot, "en", BARE \o DOTMD, BareText),
      File(DefaultRoot, "en", CLASH \o DOTMD, ClashText),
      File(DefaultRoot, "en", NavFile, NavEn),
      File(DefaultRoot, "it", INTRO \o DOTMD, IntroText),
      File(DefaultRoot, "it", NavFile, NavIt),
      File("docs", "en", GUIDE \o DOTMD, GuideText),
      File("docs", "en", INTRO \o DOTMD, IntroText),
      File("docs", "it", GUIDE \o DOTMD, <<>>) }

Stored(load) ==
    {f \in Files : f.root = load.root /\ f.lang = load.lang /\ f.file = load.file}

\* the text loadFile emits for a load the store holds
TextOf(load) ==
    IF Stored(load) = {} THEN <<>> ELSE (CHOOSE f \in Stored(load) : TRUE).text

Param(key, text) == [key |-> key, value |-> Str(text)]

\* the ParamMaps of the routes that are navigated
RouteParams ==
    { <<Param(PATH, GUIDE)>>,
      <<Param(<<"i", "d">>, <<"7">>), Param(PATH, INTRO \o <<".", "h", "t", "m", "l">>)>>,
      <<Param(PATH, BARE)>>,
      <<Param(PATH, CLASH)>> }

Routes == [source : Sources, lang : Langs, params : RouteParams]

\* ----------------------------------------------------------------- resolve
\* this.cache?.lang
CacheLang == IF cache = <<>> THEN Undefined ELSE cache[1].lang

\* a test that compares the language with the entry itself: always different
LangChangedAlways(lang) == TRUE

\* a test of the cache alone: if(!this.cache)
LangChangedFirstOnly(lang) == cache = <<>>

\* lang !== this.cache?.lang
LangChanged(lang) == lang # CacheLang

\* the new entry put in front of the entries there were
FreshCacheKeepsOld(lang) == <<[lang |-> lang]>> \o cache

\* this.cache = { lang }
FreshCache(lang) == <<[lang |-> lang]>>

\* route.data.source || 'assets/docs'
RootOf(route) == IF route.source = Undefined THEN DefaultRoot ELSE route.source

Load(kind, root, lang, file) ==
    [kind |-> kind, root |-> root, lang |-> lang, file |-> file]

\* both files requested at once, the toc under its usual name
FirstLoadsEager(root, lang, path) ==
    <<Load("main", root, lang, MainFile(path)), Load("toc", root, lang, NavFile)>>

\* the loads resolve() starts: the main .md file
FirstLoads(root, lang, path) == <<Load("main", root, lang, MainFile(path))>>

\* options.toc: the value of the key, or the absent value
TocOption(options) ==
    IF TOC \in DOMAIN options THEN Str(options[TOC]) ELSE NoValue

\* a test of the options object instead of its toc: !options is always false
HasTocAlways(options) == TRUE

\* !options.toc is false: the toc option is there and is not ""
HasToc(options) ==
    TocOption(options).type = "string" /\ TocOption(options).str # <<>>

\* the toc loaded for the language of the cache, not for the call's own
TocLoadCacheLang(call) ==
    Load("toc", call.root, CacheLang, TocOption(call.options).str)

\* this.loader.loadFile(root, lang, options.toc) in the closure of a call
TocLoad(call) ==
    Load("toc", call.root, call.lang, TocOption(call.options).str)

\* { body, path, ...options }
Content(body, path, options) == options @@ (BODY :> body) @@ (PATH :> path)

\* the options spread last: { body, path, toc, ...options }
ContentWithTocFirst(body, path, options, toc) ==
    options @@ (TOC :> toc) @@ (BODY :> body) @@ (PATH :> path)

\* { body, path, ...options, toc }
ContentWithToc(body, path, options, toc) ==
    (TOC :> toc) @@ options @@ (BODY :> body) @@ (PATH :> path)

\* { body: '' }
Degraded == (BODY :> <<>>)

\* what the subscriber of resolve() receives
Emit(value) == [kind |-> "next", value |-> value, error |-> ""]

Thrown(error) == [kind |-> "error", value |-> EmptyMap, error |-> error]

\* a handler that rethrows
catchErrorRethrow(error) == Thrown(error)

\* catchError: the handler's observable replaces the failed one
catchError(error) == Emit(Degraded)

\* a handler that forgets the redirection
RedirectOmitted(error) == <<>>

\* a handler that redirects a second time
RedirectTwice(error) == <<NotFoundCommand, NotFoundCommand>>

\* the commands the handler of catchError gives the router
Redirect(error) == <<NotFoundCommand>>

\* the value delivered first, the redirection made by a later subscriber
HandlerTraceEmitFirst(commands) ==
    <<"emit">> \o [k \in 1..Len(commands) |-> "navigate"]

\* the handler of catchError: router.navigate, then return of({ body: '' })
HandlerTrace(commands) ==
    [k \in 1..Len(commands) |-> "navigate"] \o <<"emit">>

\* history: the calls in flight when the cache is reset are marked
Invalidate(cs, reset) ==
    [i \in DOMAIN cs |->
        IF reset /\ cs[i].pending # {} THEN [cs[i] EXCEPT !.invalidated = TRUE]
        ELSE cs[i]]

resolve(route) ==
    /\ Len(calls) < MaxCalls
    /\ LET root == RootOf(route)
           lang == route.lang
           path == resolvePath(route.params)
           reset == LangChanged(lang)
           loads == FirstLoads(root, lang, path)
       IN /\ cache' = IF reset THEN FreshCache(lang) ELSE cache
          /\ calls' = Append(Invalidate(calls, reset),
                 [route |-> route, root |-> root, lang |-> lang, path |-> path,
                  raised |-> "",
                  body |-> <<>>, options |-> EmptyMap,
                  loads |-> loads,
                  pending |-> {loads[k] : k \in 1..Len(loads)},
                  faults |-> <<>>,
                  emitted |-> <<>>,
                  resets |-> IF reset THEN 1 ELSE 0,
                  navigations |-> 0,
                  invalidated |-> FALSE,
                  trace |-> (IF reset THEN <<"reset">> ELSE <<>>)
                            \o [k \in 1..Len(loads) |-> loads[k].kind]])
    /\ UNCHANGED <<router, scan>>

\* the main load emits its text: the function given to switchMap runs
MainLoaded(i) ==
    /\ i \in 1..Len(calls)
    /\ \E load \in calls[i].pending :
        /\ load.kind = "main"
        /\ Stored(load) # {}
        /\ LET call == calls[i]
               body == TextOf(load)
               options == parseComments(body)
               parsed == [call EXCEPT !.body = body, !.options = options,
                                      !.faults = Append(@, "none")]
           IN IF ~HasToc(options)
              THEN calls' = [calls EXCEPT ![i] =
                       [parsed EXCEPT
                           !.pending = @ \ {load},
                           !.emitted = Append(@, Emit(Content(body, call.path, options))),
                           !.trace = @ \o <<"parse", "emit">>]]
              ELSE calls' = [calls EXCEPT ![i] =
                       [parsed EXCEPT
                           !.pending = (@ \ {load}) \cup {TocLoad(parsed)},
                           !.loads = Append(@, TocLoad(parsed)),
                           !.trace = @ \o <<"parse", "toc">>]]
    /\ UNCHANGED <<cache, router, scan>>

\* the toc load emits its text: the function given to map runs
TocLoaded(i) ==
    /\ i \in 1..Len(calls)
    /\ \E load \in calls[i].pending :
        /\ load.kind = "toc"
        /\ Stored(load) # {}
        /\ LET call == calls[i]
           IN calls' = [calls EXCEPT ![i] =
                  [call EXCEPT
                      !.pending = @ \ {load},
                      !.faults = Append(@, "none"),
                      !.emitted = Append(@, Emit(ContentWithToc(call.body, call.path,
                                                        call.options, TextOf(load)))),
                      !.trace = @ \o <<"emit">>]]
    /\ UNCHANGED <<cache, router, scan>>

\* a load fails: NotFound when the store does not hold the file, or a
\* TransportError; the handler given to catchError runs
LoadFailed(i, error) ==
    /\ i \in 1..Len(calls)
    /\ \E load \in calls[i].pending :
        /\ error = "NotFound" => Stored(load) = {}
        /\ LET call == calls[i]
               out == catchError(error)
               commands == IF out.kind = "next" THEN Redirect(error) ELSE <<>>
           IN /\ calls' = [calls EXCEPT ![i] =
                     [call EXCEPT
                         !.pending = {},
                         !.faults = Append(@, error),
                         !.emitted = Append(@, out),
                         !.navigations = @ + Len(commands),
                         !.trace = @ \o HandlerTrace(commands)]]
              /\ router' = router \o commands
    /\ UNCHANGED <<cache, scan>>

\* no run of parseComments is followed
IdleScan ==
    [pc |-> "idle", source |-> NoValue, out |-> EmptyMap,
     lastIndex |-> [comments |-> 0, pairs |-> 0], comment |-> NullMatch,
     rx |-> "comments", from |-> 0, hit |-> FALSE, seen |-> <<>>]

Init ==
    /\ cache = <<>>
    /\ calls = <<>>
    /\ router = <<>>
    /\ scan = IdleScan

Next ==
    \/ \E route \in Routes : resolve(route)
    \/ \E i \in 1..MaxCalls : MainLoaded(i)
    \/ \E i \in 1..MaxCalls : TocLoaded(i)
    \/ \E i \in 1..MaxCalls, error \in Failures : LoadFailed(i, error)

Spec == Init /\ [][Next]_vars

\* the pending load of call i succeeds or fails
Complete(i) ==
    \/ \E error \in Failures : LoadFailed(i, error)
    \/ MainLoaded(i)
    \/ TocLoaded(i)

\* every load that is made eventually succeeds or fails
SpecFair == Spec /\ \A i \in 1..MaxCalls : WF_vars(Complete(i))

\* ------------------------------------------- path assembly on any ParamMap
PATH1 == PATH \o <<"1">>
PATH2 == PATH \o <<"2">>

ParamKeys ==
    {PATH, PATH1, PATH2, PATH \o <<"1", "0">>, PATH \o <<"1", "x">>, <<"x">> \o PATH}

ParamValues == {Str(<<"a">>), Str(<<"b">>), Str(<<"c">>), Str(<<>>), NoValue}

\* a ParamMap of the keys ks with the values vs
ParamMap(ks, vs) == [i \in DOMAIN ks |-> [key |-> ks[i], value |-> vs[i]]]

\* Object.keys: the keys of a ParamMap are unique
UniqueKeys(ks) == \A i, j \in DOMAIN ks : ks[i] = ks[j] => i = j

\* the first resolve(), for any ParamMap of at most MaxParams parameters
NextPath ==
    /\ calls = <<>>
    /\ \E n \in 0..MaxParams :
         \E ks \in [1..n -> ParamKeys], vs \in [1..n -> ParamValues] :
            /\ UniqueKeys(ks)
            /\ resolve([source |-> Undefined, lang |-> "en",
                        params |-> ParamMap(ks, vs)])

SpecPath == Init /\ [][NextPath]_vars

\* --------------------------------- parseComments, iteration by iteration
\* scan is the state of one run of parseComments(source):
\*   pc         "start", then "comments" while the outer parse is at its
\*              exec, "pairs" while the inner parse is, "done" on return
\*   out        the object being filled
\*   lastIndex  the lastIndex of the two regular expressions
\*   comment    the match the outer callback was given
\*   rx         the regular expression of the latest exec
\*   from, hit  the lastIndex the latest exec started at, and whether it matched
\*   seen       history: the pairs handed to the inner callback, in call
\*              order, each with the index of its comment and its own index
Pieces ==
    { COPEN, CCLOSE, <<"t", ":", "a">>, <<"t", ":", "b">>,
      <<" ", "r", ":", " ", "c", "\n">> }

RECURSIVE Flatten(_)
Flatten(pieces) ==
    IF pieces = <<>> THEN <<>> ELSE Head(pieces) \o Flatten(Tail(pieces))

\* the run of parseComments(source) before its first statement
NewScan(source) == [IdleScan EXCEPT !.pc = "start", !.source = source]

\* the source is absent, or a text of at most MaxPieces pieces
InitParse ==
    /\ cache = <<>>
    /\ calls = <<>>
    /\ router = <<>>
    /\ \/ scan = NewScan(NoValue)
       \/ \E n \in 0..MaxPieces :
            \E pieces \in [1..n -> Pieces] : scan = NewScan(Str(Flatten(pieces)))

\* if(!source) { return out; }
parseCommentsCall ==
    /\ scan.pc = "start"
    /\ scan' = [scan EXCEPT !.pc =
                   IF scan.source.type # "string" \/ scan.source.str = <<>>
                   THEN "done" ELSE "comments"]
    /\ UNCHANGED <<cache, calls, router>>

\* one iteration of the loop of the outer parse: exec, then either the loop
\* ends (parseComments returns out) or the callback starts the inner parse
CommentIteration ==
    /\ scan.pc = "comments"
    /\ LET match == exec("comments", scan.source.str, scan.lastIndex.comments)
       IN scan' =
            IF IsNull(match)
            THEN [scan EXCEPT !.pc = "done", !.lastIndex.comments = 0,
                              !.rx = "comments",
                              !.from = scan.lastIndex.comments, !.hit = FALSE]
            ELSE [scan EXCEPT !.pc = "pairs", !.comment = match,
                              !.lastIndex.comments = NextIndex(match),
                              !.rx = "comments",
                              !.from = scan.lastIndex.comments, !.hit = TRUE]
    /\ UNCHANGED <<cache, calls, router>>

\* one iteration of the loop of the inner parse: exec, then either the loop
\* ends (the outer loop goes on) or the callback assigns the pair
PairIteration ==
    /\ scan.pc = "pairs"
    /\ LET match == exec("pairs", scan.comment.groups[1], scan.lastIndex.pairs)
       IN scan' =
            IF IsNull(match)
            THEN [scan EXCEPT !.pc = "comments", !.lastIndex.pairs = 0,
                              !.rx = "pairs",
                              !.from = scan.lastIndex.pairs, !.hit = FALSE]
            ELSE [scan EXCEPT
                     !.out = Assign(scan.out, match.groups[1], match.groups[2]),
                     !.lastIndex.pairs = NextIndex(match),
                     !.rx = "pairs",
                     !.from = scan.lastIndex.pairs, !.hit = TRUE,
                     !.seen = Append(@, [comment |-> scan.comment.index,
                                         index |-> match.index,
                                         key |-> match.groups[1],
                                         value |-> match.groups[2]])]
    /\ UNCHANGED <<cache, calls, router>>

NextParse ==
    \/ parseCommentsCall
    \/ CommentIteration
    \/ PairIteration

SpecParse == InitParse /\ [][NextParse]_vars

\* ============================================================== properties
CallIds == 1..Len(calls)

\* the main load of the call delivered its text
MainOk(call) == Len(call.faults) >= 1 /\ call.faults[1] = "none"

\* a load of the call failed
Failed(call) == \E k \in DOMAIN call.faults : call.faults[k] \in Failures

\* the toc load of the call was started and failed
TocFailed(call) == Len(call.faults) = 2 /\ call.faults[2] \in Failures

\* the call delivered a content built from its loads
Succeeded(call) == call.emitted # <<>> /\ ~Failed(call)

\* the emission is the value { body: '' } and nothing else
IsDegraded(e) ==
    /\ e.kind = "next"
    /\ DOMAIN e.value = {BODY}
    /\ e.value[BODY] = <<>>

\* how many times the event occurs in the trace of a call
Count(trace, event) == Cardinality({k \in DOMAIN trace : trace[k] = event})

\* C1: whenever the main load or the toc load of a call fails, with NotFound
\* or with a TransportError, the subscriber of resolve receives exactly the
\* value { body: '' }, with no path, no toc and no option in it; no call ever
\* hands the error to its subscriber, and resolve itself raises nothing.
C1_FailureIsDegraded ==
    \A i \in CallIds :
        /\ calls[i].raised = ""
        /\ \A k \in DOMAIN calls[i].emitted : calls[i].emitted[k].kind # "error"
        /\ Failed(calls[i]) =>
              /\ Len(calls[i].emitted) = 1
              /\ IsDegraded(calls[i].emitted[1])

\* a call whose main load failed and a call whose toc load failed, both done
C1_Witness ==
    \E i, j \in CallIds :
        /\ calls[i].faults = <<"TransportError">>
        /\ calls[j].faults = <<"none", "NotFound">>
        /\ IsDegraded(calls[i].emitted[1])
        /\ IsDegraded(calls[j].emitted[1])

\* C2: when the options of the main document have a toc key and the toc load
\* fails, the call delivers { body: '' } and nothing else, it redirects to
\* /not-found exactly once, and the content built from the main document is
\* never delivered.
C2_TocFailureIsDegraded ==
    /\ Len(router) = Cardinality({i \in CallIds : Failed(calls[i])})
    /\ \A i \in CallIds :
          (TOC \in DOMAIN calls[i].options /\ TocFailed(calls[i])) =>
              /\ Len(calls[i].emitted) = 1
              /\ IsDegraded(calls[i].emitted[1])
              /\ calls[i].navigations = 1
              /\ Count(calls[i].trace, "navigate") = 1
              /\ \A k \in DOMAIN router : router[k] = NotFoundCommand

\* the main document of a call was loaded, names a toc, and the toc load failed
C2_Witness ==
    \E i \in CallIds :
        /\ calls[i].body = IntroText
        /\ calls[i].options[TOC] = NavFile
        /\ calls[i].faults = <<"none", "TransportError">>
        /\ calls[i].navigations = 1
        /\ router # <<>>

\* C3: a delivered content has a toc field only if the options of the main
\* document had a toc key and the toc load of that call succeeded.
C3_TocOnlyFromTocLoad ==
    \A i \in CallIds :
        \A k \in DOMAIN calls[i].emitted :
            TOC \in DOMAIN calls[i].emitted[k].value =>
                /\ TOC \in DOMAIN calls[i].options
                /\ calls[i].faults = <<"none", "none">>
                /\ \E n \in DOMAIN calls[i].loads : calls[i].loads[n].kind = "toc"

\* C4: when the options of the main document have no toc key, the call makes
\* exactly one loadFile call, the main one, and delivers a content with no
\* toc field.
C4_NoTocOneLoad ==
    \A i \in CallIds :
        (MainOk(calls[i]) /\ TOC \notin DOMAIN calls[i].options) =>
            /\ Len(calls[i].loads) = 1
            /\ calls[i].loads[1].kind = "main"
            /\ calls[i].pending = {}
            /\ Len(calls[i].emitted) = 1
            /\ calls[i].emitted[1].kind = "next"
            /\ TOC \notin DOMAIN calls[i].emitted[1].value

\* a main document with a ref option only was loaded and delivered
C4_Witness ==
    \E i \in CallIds :
        /\ calls[i].body = GuideText
        /\ DOMAIN calls[i].options = {REF}
        /\ calls[i].emitted # <<>>

\* C5: the language of the cache is that of the latest resolve call; so of two
\* successive calls the second resets the cache exactly once when its
\* language differs from the language of the first, and not at all when it is
\* the same; the first call of all resets it once; a reset comes before every
\* loadFile of its call.
C5_ResetOnLanguageChange ==
    \A i \in CallIds :
        /\ i = Len(calls) => CacheLang = calls[i].lang
        /\ calls[i].resets =
              IF i = 1 \/ calls[i].lang # calls[i - 1].lang THEN 1 ELSE 0
        /\ Count(calls[i].trace, "reset") = calls[i].resets
        /\ \A a, b \in DOMAIN calls[i].trace :
              (calls[i].trace[a] = "reset" /\ calls[i].trace[b] \in {"main", "toc"})
                  => a < b

\* two calls in the same language: the first reset the cache, the second did not
C5_Witness ==
    /\ Len(calls) >= 2
    /\ calls[1].lang = calls[2].lang
    /\ calls[1].trace[1] = "reset"
    /\ calls[2].resets = 0
    /\ calls[2].trace[1] = "main"

\* C6: in one call the toc load is started only after the main load has
\* delivered its text and the text has been parsed; at most one load of a call
\* is outstanding at any time; a call makes at most two loads.
C6_LoadsInSequence ==
    \A i \in CallIds :
        /\ Cardinality(calls[i].pending) <= 1
        /\ Len(calls[i].loads) <= 2
        /\ \A a \in DOMAIN calls[i].trace :
              calls[i].trace[a] = "toc" =>
                  /\ MainOk(calls[i])
                  /\ \E b \in 1..(a - 1) : calls[i].trace[b] = "parse"
                  /\ \A n \in DOMAIN calls[i].loads :
                        calls[i].loads[n].kind = "main" =>
                            calls[i].loads[n] \notin calls[i].pending

\* a call whose toc load is outstanding, the main load having delivered
C6_Witness ==
    \E i \in CallIds :
        /\ calls[i].trace = <<"reset", "main", "parse", "toc">>
        /\ Cardinality(calls[i].pending) = 1
        /\ Len(calls[i].loads) = 2

\* what a resolve of the route delivers when no other call is made, the
\* loader answering its loads with the given faults
Alone(route, faults) ==
    LET root == RootOf(route)
        lang == route.lang
        path == resolvePath(route.params)
        body == TextOf(Load("main", root, lang, MainFile(path)))
        options == parseComments(body)
    IN IF faults[1] # "none" THEN <<Emit((BODY :> <<>>))>>
       ELSE IF ~HasToc(options) THEN <<Emit(Content(body, path, options))>>
       ELSE IF faults[2] # "none" THEN <<Emit((BODY :> <<>>))>>
       ELSE <<Emit(ContentWithToc(body, path, options,
                       TextOf(Load("toc", root, lang, options[TOC]))))>>

\* C7: whatever other calls are in flight and however their loads interleave,
\* a call that has finished has delivered what it delivers when run alone
\* with the same route and the same answers of the loader, also when another
\* call reset the cache while it was in flight.
C7_SameAsAlone ==
    \A i \in CallIds :
        calls[i].pending = {} =>
            calls[i].emitted = Alone(calls[i].route, calls[i].faults)

\* a call delivered its content with the toc after a later call for another
\* language had reset the cache while it was in flight
C7_Witness ==
    \E i \in CallIds :
        /\ calls[i].invalidated
        /\ CacheLang # calls[i].lang
        /\ calls[i].faults = <<"none", "none">>
        /\ calls[i].emitted # <<>>
        /\ TOC \in DOMAIN calls[i].emitted[1].value

\* C8: on every successful resolution the body of the content is the text of
\* the main document, its path is the assembled path, and every option other
\* than toc is in it with its value.
C8_BodyAndPathKept ==
    \A i \in CallIds :
        Succeeded(calls[i]) =>
            LET value == calls[i].emitted[1].value
            IN /\ value[BODY] = TextOf(calls[i].loads[1])
               /\ value[PATH] = resolvePath(calls[i].route.params)
               /\ \A key \in DOMAIN calls[i].options \ {TOC} :
                     value[key] = calls[i].options[key]

\* ^path\d*$ stated on the characters of the key
PathPattern(key) ==
    /\ Len(key) >= 4
    /\ <<key[1], key[2], key[3], key[4]>> = <<"p", "a", "t", "h">>
    /\ \A k \in 5..Len(key) : key[k] \in Digit

\* the parameters of a ParamMap whose key has the pattern, by position
Kept(params) == {i \in DOMAIN params : PathPattern(params[i].key)}

\* the values of the first n parameters whose key has the pattern, each
\* after the first preceded by one "/"
RECURSIVE Slashed(_, _)
Slashed(params, n) ==
    IF n = 0 THEN <<>>
    ELSE IF n \notin Kept(params) THEN Slashed(params, n - 1)
    ELSE IF Kept(params) \cap 1..(n - 1) = {} THEN params[n].value.str
    ELSE Slashed(params, n - 1) \o <<"/">> \o params[n].value.str

\* every parameter whose key has the pattern has a value
AllValued(params) == \A i \in Kept(params) : params[i].value.type = "string"

C10_MissingValueRejected ==
    \A i \in CallIds :
        ~AllValued(calls[i].route.params) =>
            /\ calls[i].raised = "InvalidRequest"
            /\ calls[i].loads = <<>>

\* the value of the last pair of seen that has the key
LastOf(seen, key) ==
    LET last == CHOOSE k \in DOMAIN seen :
                    /\ seen[k].key = key
                    /\ \A j \in DOMAIN seen : j > k => seen[j].key # key
    IN seen[last].value

\* the pairs were seen comment after comment, and in a comment left to right
InDocumentOrder(seen) ==
    \A j, k \in DOMAIN seen :
        j < k => \/ seen[j].comment < seen[k].comment
                 \/ /\ seen[j].comment = seen[k].comment
                    /\ seen[j].index < seen[k].index

\* C11: parseComments hands the pairs to its callback comment after comment
\* in the order of the source, and within a comment from left to right; the
\* map it fills holds, for each key seen, the value of the last pair with
\* that key; for an empty or absent source it returns the empty map. The map
\* a finished run returns is the one resolve gets from parseComments.
C11_LastOccurrenceWins ==
    /\ InDocumentOrder(scan.seen)
    /\ DOMAIN scan.out = {scan.seen[k].key : k \in DOMAIN scan.seen}
    /\ \A key \in DOMAIN scan.out : scan.out[key] = LastOf(scan.seen, key)
    /\ scan.pc = "done" =>
          IF scan.source.type # "string" \/ scan.source.str = <<>>
          THEN scan.out = EmptyMap /\ scan.seen = <<>>
          ELSE scan.out = parseComments(scan.source.str)

\* the run on <!--t:a--><!--t:b--> has returned { t: 'b' }
C11_Witness ==
    /\ scan.pc = "done"
    /\ scan.source = Str(COPEN \o <<"t", ":", "a">> \o CCLOSE
                         \o COPEN \o <<"t", ":", "b">> \o CCLOSE)
    /\ Len(scan.seen) = 2
    /\ scan.out = (<<"t">> :> <<"b">>)

\* C12: in every iteration of a loop of parse in which exec matches,
\* lastIndex ends at least one position after the lastIndex the exec started
\* at; lastIndex never passes the length of the source by more than one and
\* the callback is called at most once per character, so the loops end; and
\* a run that has not returned is at a statement that can always be taken.
C12_ScanTerminates ==
    /\ scan.hit => scan.lastIndex[scan.rx] > scan.from
    /\ scan.lastIndex.comments <= Len(scan.source.str) + 1
    /\ scan.lastIndex.pairs <= Len(scan.source.str) + 1
    /\ Len(scan.seen) <= Len(scan.source.str)
    /\ scan.pc \in {"start", "comments", "pairs", "done"}

\* a run that went through three matching iterations and has returned
C12_Witness ==
    /\ scan.pc = "done"
    /\ Len(scan.seen) >= 3
    /\ scan.lastIndex = [comments |-> 0, pairs |-> 0]

\* C13: whenever the options of the main document have a toc key, the call
\* makes a toc load for the value of the key, with the root and the language
\* of its own main load.
C13_TocKeyIsLoaded ==
    \A i \in CallIds :
        (MainOk(calls[i]) /\ TOC \in DOMAIN calls[i].options) =>
            \E n \in DOMAIN calls[i].loads :
                /\ calls[i].loads[n].kind = "toc"
                /\ calls[i].loads[n].file = calls[i].options[TOC]
                /\ calls[i].loads[n].root = calls[i].loads[1].root
                /\ calls[i].loads[n].lang = calls[i].loads[1].lang

\* C14: when the toc load succeeds, the toc of the content is the text of
\* the toc file, not its name, and every other option is in the content with
\* its value.
C14_TocIsText ==
    \A i \in CallIds :
        (calls[i].faults = <<"none", "none">> /\ calls[i].emitted # <<>>) =>
            LET value == calls[i].emitted[1].value
                toc == calls[i].loads[2]
            IN /\ toc.kind = "toc"
               /\ Stored(toc) # {}
               /\ value[TOC] \in {f.text : f \in Stored(toc)}
               /\ value[TOC] # calls[i].options[TOC]
               /\ \A key \in DOMAIN calls[i].options \ {TOC} :
                     value[key] = calls[i].options[key]

\* the content of intro in Italian: the toc is the Italian nav, ref is v1
C14_Witness ==
    \E i \in CallIds :
        /\ calls[i].lang = "it"
        /\ calls[i].options = (TOC :> NavFile) @@ (REF :> <<"v", "1">>)
        /\ calls[i].emitted # <<>>
        /\ calls[i].emitted[1].value[TOC] = NavIt
        /\ calls[i].emitted[1].value[REF] = <<"v", "1">>

\* C15: when the main load fails the call parses nothing and makes no toc
\* load, it redirects to /not-found exactly once, and it does so before it
\* delivers { body: '' }.
C15_MainFailureShortCircuits ==
    \A i \in CallIds :
        (calls[i].faults # <<>> /\ calls[i].faults[1] \in Failures) =>
            /\ Len(calls[i].loads) = 1
            /\ Count(calls[i].trace, "parse") = 0
            /\ Count(calls[i].trace, "toc") = 0
            /\ calls[i].body = <<>> /\ calls[i].options = EmptyMap
            /\ Count(calls[i].trace, "navigate") = 1
            /\ calls[i].navigations = 1
            /\ Count(calls[i].trace, "emit") = 1
            /\ \A a, b \in DOMAIN calls[i].trace :
                  (calls[i].trace[a] = "navigate" /\ calls[i].trace[b] = "emit")
                      => a < b

\* a call whose main file is not in the store: reset, load, redirect, deliver
C15_Witness ==
    \E i \in CallIds :
        /\ calls[i].faults = <<"NotFound">>
        /\ calls[i].trace = <<"reset", "main", "navigate", "emit">>
        /\ router = <<NotFoundCommand>>

\* C16: a resolve call whose language differs from the language of the entry
\* the cache holds, or that finds no entry, leaves in the cache one entry
\* only, which has the new language and no other key; no other step changes
\* the cache.
C16_ResetReplacesEntry ==
    [][ IF Len(calls') > Len(calls) /\ calls'[Len(calls')].lang # CacheLang
        THEN /\ Len(cache') = 1
             /\ DOMAIN cache'[1] = {"lang"}
             /\ cache'[1].lang = calls'[Len(calls')].lang
             /\ cache'[1].lang # CacheLang
        ELSE cache' = cache ]_vars

\* the second call changed the language: the entry is the one of its language
C16_Witness ==
    /\ Len(calls) >= 2
    /\ calls[1].lang = "en"
    /\ calls[2].lang = "it"
    /\ calls[2].resets = 1
    /\ cache = <<[lang |-> "it"]>>

\* C17: once resolve has been called, the cache holds exactly one entry and
\* its language is the language of the latest call, whether the loads of the
\* calls have succeeded, failed or are outstanding.
C17_CacheFollowsLatestCall ==
    calls # <<>> =>
        /\ Len(cache) = 1
        /\ cache[1].lang = calls[Len(calls)].lang

\* an earlier call for the other language failed after the latest call had
\* reset the cache, and the cache is still the one of the latest call
C17_Witness ==
    \E i \in CallIds :
        /\ i < Len(calls)
        /\ calls[i].invalidated
        /\ Failed(calls[i])
        /\ calls[i].lang # calls[Len(calls)].lang
        /\ cache = <<[lang |-> calls[Len(calls)].lang]>>

\* C18: a call none of whose loads failed never redirects, no call redirects
\* more than once, and the router is given one command per failed call.
C18_RedirectOnlyOnFailure ==
    /\ \A i \in CallIds :
          /\ calls[i].navigations = Count(calls[i].trace, "navigate")
          /\ calls[i].navigations <= 1
          /\ ~Failed(calls[i]) => calls[i].navigations = 0
    /\ Len(router) <= Cardinality({i \in CallIds : Failed(calls[i])})

\* a call delivered its content with the toc and the router was given nothing
C18_Witness ==
    \E i \in CallIds :
        /\ calls[i].faults = <<"none", "none">>
        /\ calls[i].emitted # <<>>
        /\ calls[i].navigations = 0
        /\ router = <<>>

\* a call is over: no load is outstanding and one value was delivered
Delivered(i) ==
    /\ Len(calls) >= i
    /\ calls[i].pending = {}
    /\ Len(calls[i].emitted) = 1
    /\ calls[i].emitted[1].kind = "next"

\* C19: when every load eventually succeeds or fails, every call eventually
\* delivers a value, the content or { body: '' }; no call ever delivers more
\* than one value, and none delivers an error. A delivery is never undone, so
\* "every call is eventually delivered" is "again and again, all the calls
\* made so far are delivered".
C19_OneResult ==
    /\ []<>(\A i \in CallIds : Delivered(i))
    /\ [](\A i \in CallIds :
             /\ Len(calls[i].emitted) <= 1
             /\ \A k \in DOMAIN calls[i].emitted : calls[i].emitted[k].kind = "next")

\* two calls are over, one with a content and one with { body: '' }
C19_Witness ==
    \E i, j \in CallIds :
        /\ Delivered(i) /\ Delivered(j)
        /\ Succeeded(calls[i])
        /\ Failed(calls[j]) /\ IsDegraded(calls[j].emitted[1])

====
